---- MODULE Spec2Model ----
(***************************************************************************)
(* A model of the SpineML generator's model-translation core:              *)
(*   - SpineMLGenerator::wrapAndReplaceVariableNames / wrapVariableNames   *)
(*     (the token substitution engine),                                    *)
(*   - SpineMLGenerator::generateModelCode (regime-ID table and the        *)
(*     regime-driven traversal),                                           *)
(*   - SpineMLGenerator::CodeStream::onRegimeEnd (the regime code          *)
(*     assembler).                                                         *)
(* Texts are sequences of one-character strings.                           *)
(***************************************************************************)
EXTENDS Integers, Sequences, FiniteSets, TLC

VARIABLES
    \* --- token substitution -------------------------------------------
    code0,        \* the code text before any substitution
    code,         \* the code text (std::string &code)
    prevCode,     \* the code text before the latest substitution
    applied,      \* the (variableName, replaceVariableName) pairs applied so far
    \* --- generateModelCode --------------------------------------------
    regimes,      \* names of the Regime nodes of Dynamics, in document order
    regimeIDs,    \* std::map<std::string, unsigned int> regimeIDs
    pc,           \* position in generateModelCode
    regimeIdx,    \* index of the Regime node being visited
    children,     \* transition / derivative child nodes of that Regime, document order
    childPos,     \* position in the loop of the current kind
    currentRegimeID,
    calls,        \* handler invocations made for the current Regime
    regimeEnds,   \* the IDs handed to regimeEndFunc so far
    multipleRegimes,  \* const bool multipleRegimes; the flag of every onRegimeEnd
    \* --- CodeStream ---------------------------------------------------
    m_CodeStream,           \* the running output
    m_CurrentRegimeStream,  \* the scratch buffer of the current regime
    m_FirstNonEmptyRegime,
    blocks,                 \* history: (ID, scratch text) at every onRegimeEnd so far
    lastOp,                 \* history: the latest operation on the stream
    \* --- SpineMLNeuronModel constructor ---------------------------------
    docKind,        \* what the file at url holds
    n_pc,           \* position in the constructor
    n_idx,          \* index of the Regime node being visited
    n_regimeIDs,    \* the constructor's std::map<std::string, unsigned int> regimeIDs
    n_multipleRegimes,
    conds,          \* OnCondition nodes of that Regime, document order
    condPos,        \* position in the loop over them
    hasTD,          \* whether that Regime has a TimeDerivative child
    simCode,        \* std::stringstream simCode
    thresholdCondition,
    firstRegime,
    n_error,        \* what() of the exception thrown, "" if none
    params,         \* names of the Parameter nodes, document order
    stateVars,      \* names of the StateVariable nodes, document order
    variableParams, \* const std::set<std::string> &variableParams
    m_ParamNames,
    m_Vars,
    \* --- findModelVariables ---------------------------------------------
    f_pc,           \* "idle", "call" or "done"
    f_multiple,     \* bool multipleRegimes, as handed in
    f_paramNames,   \* the StringVec returned
    f_vars,         \* the StringPairVec returned
    \* --- ParamValues / VarValues ----------------------------------------
    v_names,        \* the names the model declares, in its order
    v_values,       \* std::map<std::string, double> m_Values
    v_called,       \* which getValues was called, "none" before the call
    v_result,       \* the std::vector<double> returned
    \* --- getCreateModel -------------------------------------------------
    models,         \* std::map<ModelParams, T> models: key to model instance
    created,        \* history: the keys T was constructed with, in order
    requested,      \* history: the keys requested, in order
    returned,       \* history: the instance each request returned
    \* --- getSynapticMatrixType ------------------------------------------
    s_node,         \* the Synapse node: its connection children
    s_globalG,      \* bool globalG
    s_pc,           \* "idle", "call", "args", "returned" or "error"
    s_branch,       \* the connection child whose branch was taken
    s_passed,       \* the node handed to the three readers of that branch
    s_order,        \* the order in which the arguments of make_tuple are evaluated
    s_values,       \* the arguments evaluated so far
    s_result,       \* the tuple returned
    s_error         \* what() of the exception thrown, "" if none

wrapVars   == <<code0, code, prevCode, applied>>
travVars   == <<regimes, regimeIDs, pc, regimeIdx, children, childPos,
                currentRegimeID, calls, regimeEnds, multipleRegimes>>
streamVars == <<m_CodeStream, m_CurrentRegimeStream,
                m_FirstNonEmptyRegime, blocks, lastOp>>
neuronVars == <<docKind, n_pc, n_idx, n_regimeIDs, n_multipleRegimes, conds,
                condPos, hasTD, simCode, thresholdCondition, firstRegime,
                n_error, params, stateVars, variableParams, m_ParamNames, m_Vars>>
classVars  == <<f_pc, f_multiple, f_paramNames, f_vars>>
valueVars  == <<v_names, v_values, v_called, v_result>>
cacheVars  == <<models, created, requested, returned>>
synapseVars == <<s_node, s_globalG, s_pc, s_branch, s_passed, s_order,
                 s_values, s_result, s_error>>
toolVars   == <<classVars, valueVars, cacheVars, synapseVars>>
restVars   == <<neuronVars, toolVars>>
vars == <<wrapVars, travVars, streamVars, restVars>>

----------------------------------------------------------------------------
(* Bounds *)
MaxLen == 3
MaxWraps == 2
MaxRegimes == 3
MaxChildren == 2
MaxEmit == 1
MaxEnds == 3
MaxConditions == 1
MaxAssign == 1
MaxParams == 2
MaxStateVars == 1
MaxDeclared == 3
MaxProps == 2
MaxRequests == 3

----------------------------------------------------------------------------
(* Token substitution: wrapAndReplaceVariableNames                          *)

Letters == {"V", "x"}
Digits == {"1"}
\* the characters a code text is drawn from
Alphabet == Letters \cup Digits \cup {"_", "+"}

\* the regex character class [a-zA-Z_]
RegexClass == Letters \cup {"_"}

\* variable names handed to the substitution
VariableNames == {<<"V">>, <<"x">>, <<"V", "1">>}
\* (variableName, replaceVariableName) pairs of wrapAndReplaceVariableNames
ReplacePairs == {<<(<<"x">>), (<<"x", "_">>)>>}

SeqsUpTo(S, n) == UNION {[1..k -> S] : k \in 0..n}

\* s[i..j], which is empty when j < i
Slice(s, i, j) == IF j < i THEN <<>> ELSE SubSeq(s, i, j)

\* variableName occurs literally in text at positions p .. p+Len-1
LiteralAt(text, name, p) ==
    /\ p >= 1
    /\ p + Len(name) - 1 <= Len(text)
    /\ \A k \in 1..Len(name) : text[p + k - 1] = name[k]

\* group 2, ($|[^a-zA-Z_]), tried at position e: whether it matches, and
\* the text it captures ($ is tried first and captures nothing)
Group2At(text, e) ==
    IF e = Len(text) + 1 THEN [ok |-> TRUE, g |-> <<>>]
    ELSE IF e <= Len(text) /\ text[e] \notin RegexClass
         THEN [ok |-> TRUE, g |-> <<text[e]>>]
         ELSE [ok |-> FALSE, g |-> <<>>]

NoMatch == [ok |-> FALSE, g1 |-> <<>>, g2 |-> <<>>, end |-> 0]

\* The regex matched with its first character at position s. Group 1,
\* (^|[^a-zA-Z_]): ^ is tried first and matches at the start of the text
\* only; the other alternative consumes the character at s.
MatchAt(text, name, s) ==
    IF /\ s = 1
       /\ LiteralAt(text, name, 1)
       /\ Group2At(text, 1 + Len(name)).ok
    THEN LET g2 == Group2At(text, 1 + Len(name)).g
         IN  [ok |-> TRUE, g1 |-> <<>>, g2 |-> g2, end |-> Len(name) + Len(g2)]
    ELSE IF /\ s <= Len(text)
            /\ text[s] \notin RegexClass
            /\ LiteralAt(text, name, s + 1)
            /\ Group2At(text, s + 1 + Len(name)).ok
    THEN LET g2 == Group2At(text, s + 1 + Len(name)).g
         IN  [ok |-> TRUE, g1 |-> <<text[s]>>, g2 |-> g2,
              end |-> s + Len(name) + Len(g2)]
    ELSE NoMatch

\* the format string "$1$(" + replaceVariableName + ")$2" applied to a match
Format(m, target) == m.g1 \o <<"$", "(">> \o target \o <<")">> \o m.g2

\* std::regex_replace from search position pos on: every match is searched
\* from the end of the one before it, the text between matches is copied.
RECURSIVE RegexReplaceFrom(_, _, _, _)
RegexReplaceFrom(text, name, target, pos) ==
    LET starts == {s \in pos..Len(text) : MatchAt(text, name, s).ok}
    IN  IF starts = {} THEN Slice(text, pos, Len(text))
        ELSE LET s == CHOOSE t \in starts : \A u \in starts : t <= u
                 m == MatchAt(text, name, s)
             IN  Slice(text, pos, s - 1) \o Format(m, target)
                   \o RegexReplaceFrom(text, name, target, m.end + 1)

wrapAndReplaceVariableNames(text, variableName, replaceVariableName) ==
    RegexReplaceFrom(text, variableName, replaceVariableName, 1)

wrapVariableNames(text, variableName) ==
    wrapAndReplaceVariableNames(text, variableName, variableName)

InitWrap ==
    /\ code0 \in SeqsUpTo(Alphabet, MaxLen)
    /\ code = code0
    /\ prevCode = code0
    /\ applied = <<>>

\* one call wrapVariableNames(code, n)
WrapStep(n) ==
    /\ Len(applied) < MaxWraps
    /\ code' = wrapVariableNames(code, n)
    /\ prevCode' = code
    /\ applied' = Append(applied, <<n, n>>)
    /\ UNCHANGED <<code0, travVars, streamVars, restVars>>

\* one call wrapAndReplaceVariableNames(code, n, t) with another target name
WrapAndReplaceStep(n, t) ==
    /\ Len(applied) < MaxWraps
    /\ n # t
    /\ code' = wrapAndReplaceVariableNames(code, n, t)
    /\ prevCode' = code
    /\ applied' = Append(applied, <<n, t>>)
    /\ UNCHANGED <<code0, travVars, streamVars, restVars>>

----------------------------------------------------------------------------
(* generateModelCode: the regime-ID table and the traversal                 *)

\* values of Regime/@name
RegimeNames == {"A", "B"}
\* values of @target_regime: the regime names and a name no Regime has
TargetNames == RegimeNames \cup {"Ghost"}
TransitionKinds == {"OnCondition", "OnEvent", "OnImpulse"}
\* the transition and derivative child nodes a Regime may hold; a
\* TimeDerivative has no target_regime attribute
ChildNodes ==
    [kind : TransitionKinds, target : TargetNames]
        \cup {[kind |-> "TimeDerivative", target |-> ""]}

EmptyMap == [n \in {} |-> 0]

\* std::map::size
MapSize(m) == Cardinality(DOMAIN m)

\* an insert that replaces the value of a key already there
MapInsertOverwrite(m, key, value) ==
    [n \in DOMAIN m \cup {key} |-> IF n = key THEN value ELSE m[n]]

\* std::map::insert through std::inserter: a key already there keeps its value
MapInsert(m, key, value) ==
    IF key \in DOMAIN m THEN m
    ELSE [n \in DOMAIN m \cup {key} |-> IF n = key THEN value ELSE m[n]]

\* std::map::operator[]: the map after the access (a missing key is
\* inserted, value-initialized to 0) ...
MapIndexMap(m, key) == MapInsert(m, key, 0)
\* ... and the value it yields
MapIndexValue(m, key) == MapIndexMap(m, key)[key]

\* regime.children(kind): the positions in children of the nodes of one kind
ChildrenOf(nodes, kind) ==
    LET F[i \in 0..Len(nodes)] ==
            IF i = 0 THEN <<>>
            ELSE IF nodes[i].kind = kind THEN Append(F[i - 1], i) ELSE F[i - 1]
    IN  F[Len(nodes)]

\* the child nodes reached in the order of the document
VisitOrderDocument(nodes) == [i \in 1..Len(nodes) |-> i]

\* the order in which the four loops of a regime reach its child nodes
VisitOrder(nodes) ==
    ChildrenOf(nodes, "OnCondition") \o ChildrenOf(nodes, "OnEvent")
        \o ChildrenOf(nodes, "OnImpulse") \o ChildrenOf(nodes, "TimeDerivative")

\* the target ID a time derivative is handed, written as the current regime's
TimeDerivativeTargetSelf(current) == current

\* the target ID a time derivative is handed
TimeDerivativeTarget(current) == 0

InitTrav ==
    /\ regimes \in SeqsUpTo(RegimeNames, MaxRegimes)
    /\ regimeIDs = EmptyMap
    /\ pc = "build"
    /\ regimeIdx = 1
    /\ children = <<>>
    /\ childPos = 0
    /\ currentRegimeID = 0
    /\ calls = <<>>
    /\ regimeEnds = <<>>
    /\ multipleRegimes = FALSE

\* one step of the std::transform that fills regimeIDs
BuildStep ==
    /\ pc = "build"
    /\ regimeIdx <= Len(regimes)
    /\ regimeIDs' = MapInsert(regimeIDs, regimes[regimeIdx], MapSize(regimeIDs))
    /\ regimeIdx' = regimeIdx + 1
    /\ UNCHANGED <<regimes, pc, children, childPos, currentRegimeID, calls,
                   regimeEnds, multipleRegimes,
                   wrapVars, streamVars, restVars>>

\* const bool multipleRegimes = (regimeIDs.size() > 1)
BuildDone ==
    /\ pc = "build"
    /\ regimeIdx > Len(regimes)
    /\ multipleRegimes' = (MapSize(regimeIDs) > 1)
    /\ pc' = "regime"
    /\ regimeIdx' = 1
    /\ UNCHANGED <<regimes, regimeIDs, children, childPos, currentRegimeID,
                   calls, regimeEnds,
                   wrapVars, streamVars, restVars>>

\* the head of the loop over the Regime nodes: the regime's child nodes are
\* read from the document, its ID from the table
VisitRegime ==
    /\ pc = "regime"
    /\ regimeIdx <= Len(regimes)
    /\ \E nodes \in SeqsUpTo(ChildNodes, MaxChildren) : children' = nodes
    /\ currentRegimeID' = MapIndexValue(regimeIDs, regimes[regimeIdx])
    /\ regimeIDs' = MapIndexMap(regimeIDs, regimes[regimeIdx])
    /\ pc' = "children"
    /\ childPos' = 1
    /\ calls' = <<>>
    /\ UNCHANGED <<regimes, regimeIdx, regimeEnds, multipleRegimes,
                   wrapVars, streamVars, restVars>>

\* the node the loops of the current regime reach next
NextChild == children[VisitOrder(children)[childPos]]

\* one iteration of the loop of one transition kind: the target ID is
\* looked up with regimeIDs[targetRegimeName] and the handler is invoked
HandleTransition(kind) ==
    /\ pc = "children"
    /\ childPos <= Len(children)
    /\ NextChild.kind = kind
    /\ regimeIDs' = MapIndexMap(regimeIDs, NextChild.target)
    /\ calls' = Append(calls,
                       [handler |-> kind,
                        node |-> VisitOrder(children)[childPos],
                        targetRegimeName |-> NextChild.target,
                        currentRegimeID |-> currentRegimeID,
                        targetRegimeID |-> MapIndexValue(regimeIDs, NextChild.target)])
    /\ childPos' = childPos + 1
    /\ UNCHANGED <<regimes, pc, regimeIdx, children, currentRegimeID,
                   regimeEnds, multipleRegimes,
                   wrapVars, streamVars, restVars>>

HandleCondition == HandleTransition("OnCondition")
HandleEvent == HandleTransition("OnEvent")
HandleImpulse == HandleTransition("OnImpulse")

\* one iteration of the loop over the TimeDerivative nodes
HandleTimeDerivative ==
    /\ pc = "children"
    /\ childPos <= Len(children)
    /\ NextChild.kind = "TimeDerivative"
    /\ calls' = Append(calls,
                       [handler |-> "TimeDerivative",
                        node |-> VisitOrder(children)[childPos],
                        targetRegimeName |-> NextChild.target,
                        currentRegimeID |-> currentRegimeID,
                        targetRegimeID |-> TimeDerivativeTarget(currentRegimeID)])
    /\ childPos' = childPos + 1
    /\ UNCHANGED <<regimes, regimeIDs, pc, regimeIdx, children,
                   currentRegimeID, regimeEnds, multipleRegimes,
                   wrapVars, streamVars, restVars>>

\* regimeEndFunc(multipleRegimes, currentRegimeID), and on to the next
\* Regime: the loop's variables go out of scope
RegimeEnd ==
    /\ pc = "children"
    /\ childPos > Len(children)
    /\ regimeEnds' = Append(regimeEnds, currentRegimeID)
    /\ regimeIdx' = regimeIdx + 1
    /\ pc' = "regime"
    /\ children' = <<>>
    /\ childPos' = 0
    /\ currentRegimeID' = 0
    /\ calls' = <<>>
    /\ UNCHANGED <<regimes, regimeIDs, multipleRegimes,
                   wrapVars, streamVars, restVars>>

\* return multipleRegimes
Return ==
    /\ pc = "regime"
    /\ regimeIdx > Len(regimes)
    /\ pc' = "done"
    /\ UNCHANGED <<regimes, regimeIDs, regimeIdx, children, childPos,
                   currentRegimeID, calls, regimeEnds, multipleRegimes,
                   wrapVars, streamVars, restVars>>

Next ==
    \/ BuildStep
    \/ BuildDone
    \/ VisitRegime
    \/ HandleCondition
    \/ HandleEvent
    \/ HandleImpulse
    \/ HandleTimeDerivative
    \/ RegimeEnd
    \/ Return

----------------------------------------------------------------------------
(* CodeStream::onRegimeEnd                                                   *)

\* statements a handler writes to the stream of the current regime
Statements == {"a;", "b;"}
\* regime IDs handed to onRegimeEnd
RegimeIDValues == {0, 1}

\* operator<< of an unsigned int: its decimal text
Decimal(id) == <<"0", "1", "2", "3", "4", "5", "6", "7", "8", "9">>[id + 1]

\* m_CurrentRegimeStream.tellp(): the number of characters written
Tellp(stream) == Len(stream)

\* the guard, with "else " even before the first non-empty regime
RegimeGuardAlwaysElse(first, id) ==
    <<"else ", "if(_regimeID == ", Decimal(id), ")", "{">>

\* "else " unless this is the first non-empty regime, then
\* "if(_regimeID == " << currentRegimeID << ")" << OB(1)
RegimeGuard(first, id) ==
    (IF first THEN <<>> ELSE <<"else ">>)
        \o <<"if(_regimeID == ", Decimal(id), ")", "{">>

\* m_CodeStream after onRegimeEnd
CodeStreamAfterRegimeEnd(codeStream, scratch, first, multiple, id) ==
    IF Tellp(scratch) > 0
    THEN codeStream
            \o (IF multiple THEN RegimeGuard(first, id) ELSE <<>>)
            \o scratch
            \o (IF multiple THEN <<"}">> ELSE <<>>)
    ELSE codeStream

\* m_CurrentRegimeStream after onRegimeEnd
ScratchAfterRegimeEnd(scratch) ==
    IF Tellp(scratch) > 0 THEN <<>> ELSE scratch

\* the flag, cleared by every regime end of a multi-regime component
FirstAfterRegimeEndEager(scratch, first, multiple) ==
    IF multiple THEN FALSE ELSE first

\* m_FirstNonEmptyRegime after onRegimeEnd
FirstAfterRegimeEnd(scratch, first, multiple) ==
    IF Tellp(scratch) > 0 /\ multiple THEN FALSE ELSE first

\* a CodeStream as constructed: nothing written, no regime seen
InitStream ==
    /\ m_CodeStream = <<>>
    /\ m_CurrentRegimeStream = <<>>
    /\ m_FirstNonEmptyRegime = TRUE
    /\ blocks = <<>>
    /\ lastOp = "none"

\* a handler writes a statement to the stream of the current regime
Emit(statement) ==
    /\ Len(m_CurrentRegimeStream) < MaxEmit
    /\ Len(blocks) < MaxEnds
    /\ m_CurrentRegimeStream' = Append(m_CurrentRegimeStream, statement)
    /\ lastOp' = "emit"
    /\ UNCHANGED <<m_CodeStream, m_FirstNonEmptyRegime, blocks, wrapVars, travVars, restVars>>

\* CodeStream::onRegimeEnd(multipleRegimes, currentRegimeID)
onRegimeEnd(id) ==
    /\ Len(blocks) < MaxEnds
    /\ m_CodeStream' = CodeStreamAfterRegimeEnd(m_CodeStream, m_CurrentRegimeStream,
                            m_FirstNonEmptyRegime, multipleRegimes, id)
    /\ m_CurrentRegimeStream' = ScratchAfterRegimeEnd(m_CurrentRegimeStream)
    /\ m_FirstNonEmptyRegime' = FirstAfterRegimeEnd(m_CurrentRegimeStream,
                            m_FirstNonEmptyRegime, multipleRegimes)
    /\ blocks' = Append(blocks, [id |-> id, text |-> m_CurrentRegimeStream])
    /\ lastOp' = "end"
    /\ UNCHANGED <<wrapVars, travVars, restVars>>

NextStream ==
    \/ \E st \in Statements : Emit(st)
    \/ \E id \in RegimeIDValues : onRegimeEnd(id)

NextWrap ==
    \/ \E n \in VariableNames : WrapStep(n)
    \/ \E pr \in ReplacePairs : WrapAndReplaceStep(pr[1], pr[2])

(***************************************************************************)
(* Classification of the model's names (findModelVariables, and the same   *)
(* statements in the SpineMLNeuronModel constructor)                       *)
(***************************************************************************)
\* names a document gives to Parameter and StateVariable nodes
ModelNames == {"Z", "a", "b"}

\* the characters the names are compared by
CharCode(name) ==
    CASE name = "Z" -> 90
      [] name = "_regimeID" -> 95
      [] name = "a" -> 97
      [] name = "b" -> 98
      [] name = "c" -> 99

\* a set iterated in descending order
RECURSIVE SetOrderDescending(_)
SetOrderDescending(S) ==
    IF S = {} THEN <<>>
    ELSE LET greatest == CHOOSE n \in S : \A o \in S : CharCode(n) >= CharCode(o)
         IN  <<greatest>> \o SetOrderDescending(S \ {greatest})

\* std::set<std::string> iteration: ascending, no duplicates
RECURSIVE SetOrder(_)
SetOrder(S) ==
    IF S = {} THEN <<>>
    ELSE LET least == CHOOSE n \in S : \A o \in S : CharCode(n) <= CharCode(o)
         IN  <<least>> \o SetOrder(S \ {least})

\* gennVariables: the caller's set plus the StateVariable names
GennVariables(stateNames, variable) ==
    variable \cup {stateNames[i] : i \in DOMAIN stateNames}

\* the names of all Parameter nodes
ParamNamesAll(paramNodes, stateNames, variable) == paramNodes

\* the names of the Parameter nodes that are not GeNN variables, in the
\* order of the nodes
ParamNamesOf(paramNodes, stateNames, variable) ==
    SelectSeq(paramNodes, LAMBDA p : p \notin GennVariables(stateNames, variable))

\* every GeNN variable as "scalar", then _regimeID if multipleRegimes
VarsOf(stateNames, variable, multiple) ==
    LET ordered == SetOrder(GennVariables(stateNames, variable))
    IN  [i \in 1..Len(ordered) |-> <<ordered[i], "scalar">>]
            \o (IF multiple THEN << <<"_regimeID", "unsigned int">> >> ELSE <<>>)

\* findModelVariables(componentClass, variableParams, multipleRegimes)
FindModelVariables(flag) ==
    /\ f_pc = "call"
    /\ f_multiple' = flag
    /\ f_paramNames' = ParamNamesOf(params, stateVars, variableParams)
    /\ f_vars' = VarsOf(stateVars, variableParams, flag)
    /\ f_pc' = "done"
    /\ UNCHANGED <<neuronVars, valueVars, cacheVars, wrapVars, travVars, streamVars, synapseVars>>

(***************************************************************************)
(* The SpineMLNeuronModel constructor                                      *)
(***************************************************************************)
\* what the file at url holds
DocKinds == {"unreadable", "noSpineML", "noComponentClass", "wrongType",
             "noDynamics", "ok"}

\* an OnCondition node: its target_regime, whether it has Trigger/MathInline,
\* how many StateAssignment children, whether it has EventOut[@port='spike']
Conditions ==
    [target_regime : TargetNames, trigger : BOOLEAN,
     stateAssignments : 0..MaxAssign, spike : BOOLEAN]

\* the constructor is entered with the url of a document
InitNeuron ==
    /\ docKind \in DocKinds
    /\ regimes \in (IF docKind = "ok" THEN SeqsUpTo(RegimeNames, MaxRegimes)
                    ELSE {<<>>})
    /\ params = <<"a", "b">>
    /\ stateVars \in {<<>>, <<"a">>}
    /\ variableParams = {}
    /\ n_pc = "load"
    /\ n_idx = 0
    /\ n_regimeIDs = EmptyMap
    /\ n_multipleRegimes = FALSE
    /\ conds = <<>>
    /\ condPos = 0
    /\ hasTD = FALSE
    /\ simCode = <<>>
    /\ thresholdCondition = <<>>
    /\ firstRegime = TRUE
    /\ n_error = ""
    /\ m_ParamNames = <<>>
    /\ m_Vars = <<>>

\* the three checks on the document
LoadError ==
    CASE docKind = "unreadable" -> "Could not open file"
      [] docKind = "noSpineML" -> "no root SpineML node"
      [] docKind \in {"noComponentClass", "wrongType"} ->
            "ComponentClass node is either missing or of the incorrect type"
      [] OTHER -> ""

NeuronLoad ==
    /\ n_pc = "load"
    /\ n_error' = LoadError
    /\ n_pc' = IF LoadError = "" THEN "build" ELSE "error"
    /\ n_idx' = 1
    /\ UNCHANGED <<docKind, n_regimeIDs, n_multipleRegimes, conds, condPos,
                   hasTD, simCode, thresholdCondition, firstRegime, params,
                   stateVars, variableParams, m_ParamNames, m_Vars,
                   wrapVars, travVars, streamVars, toolVars>>

\* a step that numbers a regime by the position of its node
NeuronBuildStepByPosition ==
    /\ n_pc = "build"
    /\ n_idx <= Len(regimes)
    /\ n_regimeIDs' = MapInsert(n_regimeIDs, regimes[n_idx], n_idx - 1)
    /\ n_idx' = n_idx + 1
    /\ UNCHANGED <<docKind, n_pc, n_multipleRegimes, conds, condPos,
                   hasTD, simCode, thresholdCondition, firstRegime, n_error,
                   params, stateVars, variableParams, m_ParamNames, m_Vars,
                   wrapVars, travVars, streamVars, toolVars>>

\* one step of the std::transform that fills the constructor's regimeIDs
NeuronBuildStep ==
    /\ n_pc = "build"
    /\ n_idx <= Len(regimes)
    /\ n_regimeIDs' = MapInsert(n_regimeIDs, regimes[n_idx], MapSize(n_regimeIDs))
    /\ n_idx' = n_idx + 1
    /\ UNCHANGED <<docKind, n_pc, n_multipleRegimes, conds, condPos,
                   hasTD, simCode, thresholdCondition, firstRegime, n_error,
                   params, stateVars, variableParams, m_ParamNames, m_Vars,
                   wrapVars, travVars, streamVars, toolVars>>

\* const bool multipleRegimes = (regimeIDs.size() > 1)
NeuronBuildDone ==
    /\ n_pc = "build"
    /\ n_idx > Len(regimes)
    /\ n_multipleRegimes' = (MapSize(n_regimeIDs) > 1)
    /\ n_pc' = "classify"
    /\ UNCHANGED <<docKind, n_idx, n_regimeIDs, conds, condPos,
                   hasTD, simCode, thresholdCondition, firstRegime, n_error,
                   params, stateVars, variableParams, m_ParamNames, m_Vars,
                   wrapVars, travVars, streamVars, toolVars>>

\* m_ParamNames and m_Vars are filled
NeuronClassify ==
    /\ n_pc = "classify"
    /\ m_ParamNames' = ParamNamesOf(params, stateVars, variableParams)
    /\ m_Vars' = VarsOf(stateVars, variableParams, n_multipleRegimes)
    /\ n_pc' = "regime"
    /\ n_idx' = 1
    /\ UNCHANGED <<docKind, n_regimeIDs, n_multipleRegimes, conds, condPos,
                   hasTD, simCode, thresholdCondition, firstRegime, n_error,
                   params, stateVars, variableParams,
                   wrapVars, travVars, streamVars, toolVars>>

\* the test on the regime a multi-regime model writes at the head of every
\* regime
NeuronRegimeTest(first, id) ==
    (IF first THEN <<>> ELSE <<"else ">>)
        \o <<"if(_regimeID == ", Decimal(id), ")", "{">>

\* the head of the loop over the Regime nodes
NeuronVisitRegime ==
    /\ n_pc = "regime"
    /\ n_idx <= Len(regimes)
    /\ simCode' = simCode \o
            (IF n_multipleRegimes
             THEN NeuronRegimeTest(firstRegime, MapIndexValue(n_regimeIDs, regimes[n_idx]))
             ELSE <<>>)
    /\ firstRegime' = (IF n_multipleRegimes THEN FALSE ELSE firstRegime)
    /\ n_regimeIDs' = MapIndexMap(n_regimeIDs, regimes[n_idx])
    /\ \E cs \in SeqsUpTo(Conditions, MaxConditions), td \in BOOLEAN :
            /\ conds' = cs
            /\ hasTD' = td
    /\ condPos' = 1
    /\ n_pc' = "conditions"
    /\ UNCHANGED <<docKind, n_idx, n_multipleRegimes, thresholdCondition,
                   n_error, params, stateVars, variableParams, m_ParamNames,
                   m_Vars, wrapVars, travVars, streamVars, toolVars>>

\* the StateAssignment lines of a condition
RECURSIVE StateAssignLines(_)
StateAssignLines(k) == IF k = 0 THEN <<>> ELSE <<"v = e;">> \o StateAssignLines(k - 1)

\* what a condition with a trigger writes to simCode
ConditionCode(c, multiple, table) ==
    <<"if(", "t", ")", "{">>
        \o StateAssignLines(c.stateAssignments)
        \o (IF multiple
            THEN <<"_regimeID = ", Decimal(MapIndexValue(table, c.target_regime)), ";">>
            ELSE <<>>)
        \o <<"}">>

\* "(_regimeID == " << regimeIDs[regimeName] << " && (" << trigger << "))"
ThresholdTest(id) ==
    <<"(_regimeID == ", Decimal(id), " && (", "t", "))">>

\* one pass of the loop over the OnCondition nodes of the regime
NeuronCondition ==
    /\ n_pc = "conditions"
    /\ condPos <= Len(conds)
    /\ LET c == conds[condPos]
           regimeName == regimes[n_idx]
       IN  IF ~c.trigger
           THEN /\ n_error' = "No trigger condition for transition between regimes"
                /\ n_pc' = "error"
                /\ UNCHANGED <<simCode, thresholdCondition, n_regimeIDs, condPos>>
           ELSE IF ~n_multipleRegimes /\ c.target_regime # regimeName
           THEN /\ n_error' = "Condition found in single-regime model which doesn't target itself"
                /\ n_pc' = "error"
                /\ UNCHANGED <<simCode, thresholdCondition, n_regimeIDs, condPos>>
           ELSE /\ simCode' = simCode \o ConditionCode(c, n_multipleRegimes, n_regimeIDs)
                /\ n_regimeIDs' = (IF n_multipleRegimes
                                   THEN MapIndexMap(n_regimeIDs, c.target_regime)
                                   ELSE n_regimeIDs)
                /\ thresholdCondition' =
                        (IF c.spike
                         THEN thresholdCondition
                                \o (IF Tellp(thresholdCondition) > 0 THEN <<" || ">> ELSE <<>>)
                                \o ThresholdTest(MapIndexValue(n_regimeIDs', regimeName))
                         ELSE thresholdCondition)
                /\ condPos' = condPos + 1
                /\ UNCHANGED <<n_pc, n_error>>
    /\ UNCHANGED <<docKind, n_idx, n_multipleRegimes, conds, hasTD, firstRegime,
                   params, stateVars, variableParams, m_ParamNames, m_Vars,
                   wrapVars, travVars, streamVars, toolVars>>

\* the first TimeDerivative of the regime, then the end of the regime
NeuronRegimeEnd ==
    /\ n_pc = "conditions"
    /\ condPos > Len(conds)
    /\ simCode' = simCode
            \o (IF hasTD THEN <<"v += DT * (e);">> ELSE <<>>)
            \o (IF n_multipleRegimes THEN <<"}">> ELSE <<>>)
    /\ n_idx' = n_idx + 1
    /\ n_pc' = "regime"
    /\ conds' = <<>>
    /\ condPos' = 0
    /\ hasTD' = FALSE
    /\ UNCHANGED <<docKind, n_regimeIDs, n_multipleRegimes, thresholdCondition,
                   firstRegime, n_error, params, stateVars, variableParams,
                   m_ParamNames, m_Vars, wrapVars, travVars, streamVars, toolVars>>

\* m_SimCode and m_ThresholdConditionCode are stored
NeuronDone ==
    /\ n_pc = "regime"
    /\ n_idx > Len(regimes)
    /\ n_pc' = "done"
    /\ UNCHANGED <<docKind, n_idx, n_regimeIDs, n_multipleRegimes, conds,
                   condPos, hasTD, simCode, thresholdCondition, firstRegime,
                   n_error, params, stateVars, variableParams, m_ParamNames,
                   m_Vars, wrapVars, travVars, streamVars, toolVars>>

NextNeuron ==
    \/ NeuronLoad
    \/ NeuronBuildStep
    \/ NeuronBuildDone
    \/ NeuronClassify
    \/ NeuronVisitRegime
    \/ NeuronCondition
    \/ NeuronRegimeEnd
    \/ NeuronDone

(***************************************************************************)
(* getSynapticMatrixType and readDelaySteps                                *)
(***************************************************************************)
\* double dt in hundredths of a millisecond: main calls with 0.1
Dt == 10
\* values of Delay/FixedValue, in hundredths of a millisecond
DelayValues == {12, 100}

\* the connection children getSynapticMatrixType looks for, in its order
DispatchOrder == <<"OneToOneConnection", "AllToAllConnection",
                   "FixedProbabilityConnection", "ConnectionList">>
ConnectionKinds == {DispatchOrder[i] : i \in 1..Len(DispatchOrder)}

\* a null pugi::xml_node: every child of it is null
NullNode == [present |-> FALSE, delay |-> "none", value |-> 0]

\* a connection child: without Delay, with a Delay that has no FixedValue,
\* or with Delay/FixedValue
ConnectionNodes ==
    {[present |-> TRUE, delay |-> "none", value |-> 0],
     [present |-> TRUE, delay |-> "other", value |-> 0]}
        \cup {[present |-> TRUE, delay |-> "fixed", value |-> v] : v \in DelayValues}

\* the Synapse nodes: for every kind its child, null if there is none
SynapseNodes == [ConnectionKinds -> ConnectionNodes \cup {NullNode}]

\* the orders in which the three arguments of std::make_tuple may be evaluated
ArgumentOrders ==
    {o \in [1..3 -> {"matrixType", "delay", "rowLength"}] :
        \A i, j \in 1..3 : o[i] = o[j] => i = j}

NoResult == [matrixType |-> <<>>, delaySteps |-> 0, maxRowLength |-> <<>>]

\* (unsigned int)std::round(delay / dt)
RoundedSteps(delay, dt) == (2 * delay + dt) \div (2 * dt)

\* readDelaySteps(node, dt)
ReadDelaySteps(node, dt) ==
    IF node.delay = "none"
    THEN [ok |-> FALSE, steps |-> 0, error |-> "Connector has no 'Delay' node"]
    ELSE IF node.delay = "other"
    THEN [ok |-> FALSE, steps |-> 0,
          error |-> "GeNN currently only supports projections with a single delay value"]
    ELSE [ok |-> TRUE, steps |-> RoundedSteps(node.value, dt), error |-> ""]

\* Connectors::<kind>::getMatrixType(node, numPre, numPost, globalG)
GetMatrixType(kind, node, globalG) == <<kind, node.present, globalG>>

\* Connectors::<kind>::estimateMaxRowLength(node, numPre, numPost)
EstimateMaxRowLength(kind, node) == <<kind, node.present>>

\* the first connection child the function finds, "" if it finds none
BranchTaken(node) ==
    LET found == {i \in 1..Len(DispatchOrder) : node[DispatchOrder[i]].present}
    IN  IF found = {} THEN ""
        ELSE DispatchOrder[CHOOSE i \in found : \A j \in found : i <= j]

\* every branch handing its own child to the readers
PassedNodeOwn(branch, node) == node[branch]

\* the node a branch hands to its readers: the ConnectionList branch hands
\* fixedProbability
PassedNode(branch, node) ==
    IF branch = "ConnectionList" THEN node["FixedProbabilityConnection"]
    ELSE node[branch]

InitSynapse ==
    /\ s_node \in SynapseNodes
    /\ s_globalG \in BOOLEAN
    /\ s_pc = "call"
    /\ s_branch = ""
    /\ s_passed = NullNode
    /\ s_order = <<>>
    /\ s_values = <<>>
    /\ s_result = NoResult
    /\ s_error = ""

\* the four node.child(...) tests
Dispatch ==
    /\ s_pc = "call"
    /\ IF BranchTaken(s_node) = ""
       THEN /\ s_pc' = "error"
            /\ s_error' = "No supported connection type found for projection"
            /\ UNCHANGED <<s_branch, s_passed, s_order>>
       ELSE /\ s_branch' = BranchTaken(s_node)
            /\ s_passed' = PassedNode(BranchTaken(s_node), s_node)
            /\ \E o \in ArgumentOrders : s_order' = o
            /\ s_pc' = "args"
            /\ UNCHANGED s_error
    /\ UNCHANGED <<s_node, s_globalG, s_values, s_result,
                   neuronVars, classVars, valueVars, cacheVars,
                   wrapVars, travVars, streamVars>>

\* the argument of make_tuple that is evaluated next
NextArgument == s_order[Len(s_values) + 1]

\* first argument: Connectors::...::getMatrixType
EvalMatrixType ==
    /\ s_pc = "args"
    /\ Len(s_values) < 3
    /\ NextArgument = "matrixType"
    /\ s_result' = [s_result EXCEPT
                        !.matrixType = GetMatrixType(s_branch, s_passed, s_globalG)]
    /\ s_values' = Append(s_values, "matrixType")
    /\ UNCHANGED <<s_node, s_globalG, s_pc, s_branch, s_passed, s_order, s_error,
                   neuronVars, classVars, valueVars, cacheVars,
                   wrapVars, travVars, streamVars>>

\* second argument: readDelaySteps
EvalDelay ==
    /\ s_pc = "args"
    /\ Len(s_values) < 3
    /\ NextArgument = "delay"
    /\ LET d == ReadDelaySteps(s_passed, Dt)
       IN  IF d.ok
           THEN /\ s_result' = [s_result EXCEPT !.delaySteps = d.steps]
                /\ s_values' = Append(s_values, "delay")
                /\ UNCHANGED <<s_pc, s_error>>
           ELSE /\ s_pc' = "error"
                /\ s_error' = d.error
                /\ s_result' = NoResult
                /\ UNCHANGED s_values
    /\ UNCHANGED <<s_node, s_globalG, s_branch, s_passed, s_order,
                   neuronVars, classVars, valueVars, cacheVars,
                   wrapVars, travVars, streamVars>>

\* third argument: Connectors::...::estimateMaxRowLength
EvalRowLength ==
    /\ s_pc = "args"
    /\ Len(s_values) < 3
    /\ NextArgument = "rowLength"
    /\ s_result' = [s_result EXCEPT
                        !.maxRowLength = EstimateMaxRowLength(s_branch, s_passed)]
    /\ s_values' = Append(s_values, "rowLength")
    /\ UNCHANGED <<s_node, s_globalG, s_pc, s_branch, s_passed, s_order, s_error,
                   neuronVars, classVars, valueVars, cacheVars,
                   wrapVars, travVars, streamVars>>

\* return std::make_tuple(...)
ReturnTuple ==
    /\ s_pc = "args"
    /\ Len(s_values) = 3
    /\ s_pc' = "returned"
    /\ UNCHANGED <<s_node, s_globalG, s_branch, s_passed, s_order, s_values,
                   s_result, s_error,
                   neuronVars, classVars, valueVars, cacheVars,
                   wrapVars, travVars, streamVars>>

NextSynapse ==
    \/ Dispatch
    \/ EvalMatrixType
    \/ EvalDelay
    \/ EvalRowLength
    \/ ReturnTuple

\* the traversal and the code stream, not started
IdleTrav ==
    /\ regimes = <<>>
    /\ regimeIDs = EmptyMap
    /\ pc = "idle"
    /\ regimeIdx = 0
    /\ children = <<>>
    /\ childPos = 0
    /\ currentRegimeID = 0
    /\ calls = <<>>
    /\ regimeEnds = <<>>
    /\ multipleRegimes = FALSE

IdleStream ==
    /\ m_CodeStream = <<>>
    /\ m_CurrentRegimeStream = <<>>
    /\ m_FirstNonEmptyRegime = TRUE
    /\ blocks = <<>>
    /\ lastOp = "none"

IdleWrap ==
    /\ code0 = <<>>
    /\ code = <<>>
    /\ prevCode = <<>>
    /\ applied = <<>>

\* the neuron model constructor, not called
IdleNeuron ==
    /\ docKind = "ok"
    /\ n_pc = "idle"
    /\ n_idx = 0
    /\ n_regimeIDs = EmptyMap
    /\ n_multipleRegimes = FALSE
    /\ conds = <<>>
    /\ condPos = 0
    /\ hasTD = FALSE
    /\ simCode = <<>>
    /\ thresholdCondition = <<>>
    /\ firstRegime = TRUE
    /\ n_error = ""
    /\ params = <<>>
    /\ stateVars = <<>>
    /\ variableParams = {}
    /\ m_ParamNames = <<>>
    /\ m_Vars = <<>>

\* findModelVariables, not called
IdleClass ==
    /\ f_pc = "idle"
    /\ f_multiple = FALSE
    /\ f_paramNames = <<>>
    /\ f_vars = <<>>

\* no getValues called
IdleValues ==
    /\ v_names = <<>>
    /\ v_values = EmptyMap
    /\ v_called = "none"
    /\ v_result = <<>>

\* no model requested
IdleCache ==
    /\ models = EmptyMap
    /\ created = <<>>
    /\ requested = <<>>
    /\ returned = <<>>

\* getSynapticMatrixType, not called
IdleSynapse ==
    /\ s_node = [k \in ConnectionKinds |-> NullNode]
    /\ s_globalG = FALSE
    /\ s_pc = "idle"
    /\ s_branch = ""
    /\ s_passed = NullNode
    /\ s_order = <<>>
    /\ s_values = <<>>
    /\ s_result = NoResult
    /\ s_error = ""

IdleTools == IdleClass /\ IdleValues /\ IdleCache /\ IdleSynapse

IdleRest == IdleNeuron /\ IdleTools

InitSubstitution == InitWrap /\ IdleTrav /\ IdleStream /\ IdleRest

SpecWrap == InitSubstitution /\ [][NextWrap]_vars

\* one CodeStream of a component with one regime or with several
InitAssembler ==
    /\ InitStream /\ IdleWrap /\ IdleRest
    /\ regimes = <<>>
    /\ regimeIDs = EmptyMap
    /\ pc = "idle"
    /\ regimeIdx = 0
    /\ children = <<>>
    /\ childPos = 0
    /\ currentRegimeID = 0
    /\ calls = <<>>
    /\ regimeEnds = <<>>
    /\ multipleRegimes \in BOOLEAN

SpecStream == InitAssembler /\ [][NextStream]_vars

Init == InitTrav /\ IdleWrap /\ IdleStream /\ IdleRest

Spec == Init /\ [][Next]_vars

\* the generateModelCode traversal, not called
IdleTraversal ==
    /\ regimeIDs = EmptyMap
    /\ pc = "idle"
    /\ regimeIdx = 0
    /\ children = <<>>
    /\ childPos = 0
    /\ currentRegimeID = 0
    /\ calls = <<>>
    /\ regimeEnds = <<>>
    /\ multipleRegimes = FALSE

InitNeuronModel ==
    InitNeuron /\ IdleTraversal /\ IdleWrap /\ IdleStream /\ IdleTools

SpecNeuron == InitNeuronModel /\ [][NextNeuron]_vars

(***************************************************************************)
(* ParamValues::getValues, VarValues::getValues and                        *)
(* SpineMLNeuronModel::ParamValues::getValues                              *)
(***************************************************************************)
\* names of parameters, variables and properties
ValueNames == {"a", "b", "c"}
\* values a map holds, in tenths (25 is 2.5)
Values == {10, 25}

\* every std::map<std::string, double> over the names
ValueMaps == UNION {[D -> Values] : D \in SUBSET ValueNames}

\* the values of the declared names that the map holds, the others left out
ResolveSupplied(names, m) ==
    LET held == SelectSeq(names, LAMBDA n : n \in DOMAIN m)
    IN  [i \in 1..Len(held) |-> m[held[i]]]

\* for every declared name in turn: the value m_Values.find yields, or 0.0
ResolveValues(names, m) ==
    [i \in 1..Len(names) |-> IF names[i] \in DOMAIN m THEN m[names[i]] ELSE 0]

\* the second of every pair of m_Values, in the order of the map
MapValues(m) ==
    LET keys == SetOrder(DOMAIN m)
    IN  [i \in 1..Len(keys) |-> m[keys[i]]]

\* a values object holds a map, its model declares names
InitValues ==
    /\ v_names \in SeqsUpTo(ValueNames, MaxDeclared)
    /\ v_values \in ValueMaps
    /\ v_called = "none"
    /\ v_result = <<>>
    /\ IdleNeuron /\ IdleClass /\ IdleCache /\ IdleSynapse
    /\ IdleTrav /\ IdleWrap /\ IdleStream

\* SpineMLGenerator::ParamValues::getValues over m_Model.getParamNames()
ParamValuesGetValues ==
    /\ v_called = "none"
    /\ v_result' = ResolveValues(v_names, v_values)
    /\ v_called' = "ParamValues"
    /\ UNCHANGED <<v_names, v_values, neuronVars, classVars, cacheVars,
                   wrapVars, travVars, streamVars, synapseVars>>

\* SpineMLGenerator::VarValues::getValues over the names of m_Model.getVars()
VarValuesGetValues ==
    /\ v_called = "none"
    /\ v_result' = ResolveValues(v_names, v_values)
    /\ v_called' = "VarValues"
    /\ UNCHANGED <<v_names, v_values, neuronVars, classVars, cacheVars,
                   wrapVars, travVars, streamVars, synapseVars>>

\* SpineMLNeuronModel::ParamValues::getValues
NeuronParamValuesGetValues ==
    /\ v_called = "none"
    /\ v_result' = MapValues(v_values)
    /\ v_called' = "NeuronParamValues"
    /\ UNCHANGED <<v_names, v_values, neuronVars, classVars, cacheVars,
                   wrapVars, travVars, streamVars, synapseVars>>

NextValues ==
    \/ ParamValuesGetValues
    \/ VarValuesGetValues
    \/ NeuronParamValuesGetValues

SpecValues == InitValues /\ [][NextValues]_vars

(***************************************************************************)
(* readModelProperties and getCreateModel                                  *)
(***************************************************************************)
\* url attributes of the nodes that refer to a model
Urls == {"n.xml", "m.xml"}
\* names of Property nodes
PropNames == {"a", "b"}
\* a Property node: its name, whether it has a FixedValue child
Properties == [name : PropNames, fixed : BOOLEAN]
\* a node that refers to a model
ModelNodes == [url : Urls, properties : SeqsUpTo(Properties, MaxProps)]

\* (basePath / url).str()
PathJoin(basePath, url) == <<basePath, "/", url>>

\* the ModelParams readModelProperties returns: the url under basePath and
\* the names of the properties without a FixedValue
ReadModelParams(basePath, node) ==
    [first  |-> PathJoin(basePath, node.url),
     second |-> {node.properties[i].name :
                    i \in {j \in 1..Len(node.properties) : ~node.properties[j].fixed}}]

\* a lookup that never finds the key
FoundNever(m, key) == FALSE

\* models.find(params) != models.end()
Found(m, key) == key \in DOMAIN m

InitCache ==
    /\ models = EmptyMap
    /\ created = <<>>
    /\ requested = <<>>
    /\ returned = <<>>
    /\ IdleNeuron /\ IdleClass /\ IdleValues /\ IdleSynapse
    /\ IdleTrav /\ IdleWrap /\ IdleStream

\* getCreateModel(params, models) for the ModelParams read from node; a model
\* instance is named by the number of its construction
GetCreateModel(node) ==
    /\ Len(requested) < MaxRequests
    /\ LET key == ReadModelParams("base", node)
       IN  /\ requested' = Append(requested, key)
           /\ IF ~Found(models, key)
              THEN /\ created' = Append(created, key)
                   /\ models' = MapInsert(models, key, Len(created) + 1)
              ELSE UNCHANGED <<created, models>>
           /\ returned' = Append(returned, models'[key])
    /\ UNCHANGED <<neuronVars, classVars, valueVars, wrapVars, travVars, streamVars, synapseVars>>

NextCache == \E node \in ModelNodes : GetCreateModel(node)

SpecCache == InitCache /\ [][NextCache]_vars

\* one document is read by generateModelCode and by the neuron model
\* constructor, each filling its own regimeIDs
InitTables ==
    /\ InitTrav
    /\ docKind = "ok"
    /\ n_pc = "load"
    /\ n_idx = 0
    /\ n_regimeIDs = EmptyMap
    /\ n_multipleRegimes = FALSE
    /\ conds = <<>>
    /\ condPos = 0
    /\ hasTD = FALSE
    /\ simCode = <<>>
    /\ thresholdCondition = <<>>
    /\ firstRegime = TRUE
    /\ n_error = ""
    /\ params = <<>>
    /\ stateVars = <<>>
    /\ variableParams = {}
    /\ m_ParamNames = <<>>
    /\ m_Vars = <<>>
    /\ IdleTools /\ IdleWrap /\ IdleStream

NextTables ==
    \/ BuildStep
    \/ BuildDone
    \/ NeuronLoad
    \/ NeuronBuildStep
    \/ NeuronBuildDone

SpecTables == InitTables /\ [][NextTables]_vars

InitSynapseType ==
    /\ InitSynapse
    /\ IdleNeuron /\ IdleClass /\ IdleValues /\ IdleCache
    /\ IdleTrav /\ IdleWrap /\ IdleStream

SpecSynapse == InitSynapseType /\ [][NextSynapse]_vars

\* a component is classified, by the neuron model constructor or by
\* findModelVariables
InitClassify ==
    /\ docKind = "ok"
    /\ \/ n_pc = "load" /\ f_pc = "idle"
       \/ n_pc = "idle" /\ f_pc = "call"
    /\ regimes \in (IF n_pc = "load" THEN SeqsUpTo(RegimeNames, MaxRegimes)
                    ELSE {<<>>})
    /\ params \in SeqsUpTo(ModelNames, MaxParams)
    /\ stateVars \in SeqsUpTo(ModelNames, MaxStateVars)
    /\ variableParams \in SUBSET ModelNames
    /\ n_idx = 0
    /\ n_regimeIDs = EmptyMap
    /\ n_multipleRegimes = FALSE
    /\ conds = <<>>
    /\ condPos = 0
    /\ hasTD = FALSE
    /\ simCode = <<>>
    /\ thresholdCondition = <<>>
    /\ firstRegime = TRUE
    /\ n_error = ""
    /\ m_ParamNames = <<>>
    /\ m_Vars = <<>>
    /\ f_multiple = FALSE
    /\ f_paramNames = <<>>
    /\ f_vars = <<>>
    /\ IdleValues /\ IdleCache /\ IdleSynapse
    /\ IdleTraversal /\ IdleWrap /\ IdleStream

NextClassify ==
    \/ NeuronLoad
    \/ NeuronBuildStep
    \/ NeuronBuildDone
    \/ NeuronClassify
    \/ \E flag \in BOOLEAN : FindModelVariables(flag)

SpecClassify == InitClassify /\ [][NextClassify]_vars

----------------------------------------------------------------------------
(* Claims about the token substitution                                      *)

\* the characters of an identifier: letters, digits, underscore
IdentChars == Letters \cup Digits \cup {"_"}

\* the positions where name stands alone in text: delimited on both sides
\* by a non-identifier character or an edge of the text
StandaloneStarts(text, name) ==
    {p \in 1..Len(text) :
        /\ LiteralAt(text, name, p)
        /\ (p = 1 \/ text[p - 1] \notin IdentChars)
        /\ (p + Len(name) > Len(text) \/ text[p + Len(name)] \notin IdentChars)}

\* text with the occurrences of name that start at the positions S replaced
\* by $(target), everything else kept
RECURSIVE ReplaceAtFrom(_, _, _, _, _)
ReplaceAtFrom(text, name, target, S, p) ==
    IF p > Len(text) THEN <<>>
    ELSE IF p \in S
         THEN <<"$", "(">> \o target \o <<")">>
                \o ReplaceAtFrom(text, name, target, S, p + Len(name))
         ELSE <<text[p]>> \o ReplaceAtFrom(text, name, target, S, p + 1)

ReplaceAt(text, name, target, S) == ReplaceAtFrom(text, name, target, S, 1)

\* the standalone occurrences of name in text that are not inside $( )
BareStandaloneStarts(text, name) ==
    {p \in StandaloneStarts(text, name) :
        ~ /\ p >= 3
          /\ text[p - 2] = "$"
          /\ text[p - 1] = "("
          /\ p + Len(name) <= Len(text)
          /\ text[p + Len(name)] = ")"}

\* the positions of text where a $( wrapper opens
WrapperStarts(text) ==
    {p \in 1..(Len(text) - 1) : text[p] = "$" /\ text[p + 1] = "("}

IsWrap(a) == a[1] = a[2]

\* C2: token substitution is idempotent: when wrapVariableNames has been
\* applied for the same name twice in a row, the second application left
\* the text as the first one made it.
C2_Idempotent ==
    (/\ Len(applied) >= 2
     /\ IsWrap(applied[Len(applied)])
     /\ applied[Len(applied)] = applied[Len(applied) - 1])
        => code = prevCode

\* C3: token substitution is boundary-safe: after one substitution of a
\* name the text is the original with some of the standalone occurrences
\* of the name replaced by $(target) and nothing else changed; an
\* occurrence inside a longer identifier is never rewritten.
C3_BoundarySafe ==
    Len(applied) = 1 =>
        code \in {ReplaceAt(code0, applied[1][1], applied[1][2], S) :
                    S \in SUBSET StandaloneStarts(code0, applied[1][1])}

\* C4: token substitution is complete: after one wrapVariableNames no bare
\* standalone occurrence of the name remains, and there are at least as
\* many wrappers as the original text had standalone occurrences.
C4_Complete ==
    (Len(applied) = 1 /\ IsWrap(applied[1])) =>
        /\ BareStandaloneStarts(code, applied[1][1]) = {}
        /\ Cardinality(WrapperStarts(code))
              >= Cardinality(StandaloneStarts(code0, applied[1][1]))

\* C5: substitution commutes across names: after wrapping two distinct
\* names one after the other, the text is the one that wrapping them in
\* the other order gives.
C5_Commutes ==
    (/\ Len(applied) = 2
     /\ IsWrap(applied[1]) /\ IsWrap(applied[2])
     /\ applied[1] # applied[2])
        => code = wrapVariableNames(wrapVariableNames(code0, applied[2][1]),
                                    applied[1][1])

----------------------------------------------------------------------------
(* Claims about the regime-ID table and the traversal                       *)

Range(f) == {f[i] : i \in DOMAIN f}

\* the names of the first k Regime nodes
SeenNames(k) == {regimes[i] : i \in 1..k}

\* the position of the first Regime node of a name
FirstSeen(name) ==
    CHOOSE i \in 1..Len(regimes) :
        regimes[i] = name /\ \A j \in 1..(i - 1) : regimes[j] # name

\* the ID first-seen document order gives a name: the number of distinct
\* names seen before its first Regime node
FirstSeenID(name) == Cardinality(SeenNames(FirstSeen(name) - 1))

\* C1: a transition whose target_regime is not the name of a Regime ends
\* the translation in an error before any handler is invoked: no handler is
\* ever invoked for a transition node with an unknown target (with a
\* substituted target ID).
C1_UnknownTargetFails ==
    \A i \in 1..Len(calls) :
        calls[i].handler \in TransitionKinds
            => calls[i].targetRegimeName \in Range(regimes)

\* C6: the regime-ID table is a bijection from the distinct Regime names
\* onto 0..n-1, in first-seen document order: after the first k Regime
\* nodes its domain is the set of their names, its values are exactly
\* 0..n-1, no two names share an ID and each name has its first-seen ID.
C6_TableBijection ==
    pc = "build" =>
        LET seen == SeenNames(regimeIdx - 1)
        IN  /\ DOMAIN regimeIDs = seen
            /\ Range(regimeIDs) = 0..(Cardinality(seen) - 1)
            /\ \A a, b \in seen : regimeIDs[a] = regimeIDs[b] => a = b
            /\ \A a \in seen : regimeIDs[a] = FirstSeenID(a)

\* a document with a repeated Regime name followed by a new one has been
\* read whole
C6_Witness ==
    /\ pc = "build"
    /\ regimeIdx = Len(regimes) + 1
    /\ regimes = <<"A", "A", "B">>
    /\ regimeIDs["A"] = 0
    /\ regimeIDs["B"] = 1

\* C7: the traversal leaves the table unchanged: while regimes, transitions
\* and derivatives are visited the table's domain is the set of Regime
\* names and every name keeps its ID.
C7_TableUnchanged ==
    pc \in {"regime", "children", "done"} =>
        /\ DOMAIN regimeIDs = Range(regimes)
        /\ \A a \in Range(regimes) : regimeIDs[a] = FirstSeenID(a)

\* C8 as stated: every TimeDerivative is handled with targetRegimeID equal
\* to currentRegimeID.
C8_TargetIsCurrent ==
    \A i \in 1..Len(calls) :
        calls[i].handler = "TimeDerivative"
            => calls[i].targetRegimeID = calls[i].currentRegimeID

\* C8 as amended: every TimeDerivative is handled with currentRegimeID the
\* ID of the regime that contains it and with targetRegimeID 0, whatever
\* the regime's ID is.
C8_TargetIsZero ==
    \A i \in 1..Len(calls) :
        calls[i].handler = "TimeDerivative"
            => /\ calls[i].currentRegimeID = FirstSeenID(regimes[regimeIdx])
               /\ calls[i].targetRegimeID = 0

\* a TimeDerivative of a regime whose ID is not 0 has been handled
C8_Witness ==
    \E i \in 1..Len(calls) :
        /\ calls[i].handler = "TimeDerivative"
        /\ calls[i].currentRegimeID = 1

----------------------------------------------------------------------------
(* Claims about the regime code assembler                                   *)

\* C9: onRegimeEnd called while the scratch buffer of the current regime is
\* empty changes nothing: the running output, the scratch buffer and the
\* first-non-empty-regime flag are all as they were.
C9_EmptyRegimeEndChangesNothing ==
    [][(lastOp' = "end" /\ Len(blocks') = Len(blocks) + 1
            /\ m_CurrentRegimeStream = <<>>)
        => /\ m_CodeStream' = m_CodeStream
           /\ m_CurrentRegimeStream' = m_CurrentRegimeStream
           /\ m_FirstNonEmptyRegime' = m_FirstNonEmptyRegime]_vars

\* in a multi-regime component a regime that wrote no code has ended, and
\* the regime after it, the first to write code, is introduced by if
C9_Witness ==
    /\ multipleRegimes
    /\ Len(blocks) = 2
    /\ blocks[1].text = <<>>
    /\ blocks[2].text # <<>>
    /\ m_CodeStream[1] = "if(_regimeID == "

\* the guarded blocks of the regime ends k..Len(ends), the ones whose scratch
\* buffer was empty left out; first: no block has been written before
RECURSIVE GuardedBlocks(_, _, _)
GuardedBlocks(ends, k, first) ==
    IF k > Len(ends) THEN <<>>
    ELSE IF ends[k].text = <<>> THEN GuardedBlocks(ends, k + 1, first)
    ELSE (IF first THEN <<>> ELSE <<"else ">>)
            \o <<"if(_regimeID == ", Decimal(ends[k].id), ")", "{">>
            \o ends[k].text \o <<"}">>
            \o GuardedBlocks(ends, k + 1, FALSE)

\* C10: in a multi-regime component the running output is the
\* concatenation, in call order, of one guarded block per regime end whose
\* scratch buffer was not empty: the first introduced by if, the later ones
\* by else if, each with the ID handed to its regime end and exactly the
\* text written for it; and the scratch buffer is empty after every regime
\* end.
C10_GuardedBlocksInOrder ==
    multipleRegimes =>
        /\ m_CodeStream = GuardedBlocks(blocks, 1, TRUE)
        /\ lastOp = "end" => m_CurrentRegimeStream = <<>>

\* three regimes have ended, the first and the last with code written
C10_Witness ==
    /\ multipleRegimes
    /\ Len(blocks) = 3
    /\ blocks[1].text # <<>>
    /\ blocks[2].text = <<>>
    /\ blocks[3].text # <<>>
    /\ blocks[1].text # blocks[3].text
    /\ lastOp = "end"


(***************************************************************************)
(* Claims about the neuron model's generated code                          *)
(***************************************************************************)
\* the pieces of generated text that refer to the regime-ID variable
RegimeIDTexts == {"if(_regimeID == ", "(_regimeID == ", "_regimeID = "}

RefersToRegimeID(text) == \E i \in 1..Len(text) : text[i] \in RegimeIDTexts

DeclaresRegimeID(varList) == \E i \in 1..Len(varList) : varList[i][1] = "_regimeID"

\* C11: for a component with exactly one regime neither the simulation code
\* nor the threshold-condition code of the neuron model contains a test on
\* _regimeID, and the variable list does not contain _regimeID.
C11_SingleRegimeNeverRefersToRegimeID ==
    (Len(regimes) = 1 /\ n_pc \in {"regime", "conditions", "done"}) =>
        /\ ~RefersToRegimeID(simCode)
        /\ ~RefersToRegimeID(thresholdCondition)
        /\ ~DeclaresRegimeID(m_Vars)


(***************************************************************************)
(* Claims about the classification of names                                *)
(***************************************************************************)
InSeq(name, list) == \E i \in 1..Len(list) : list[i] = name

VarNames(varList) == {varList[i][1] : i \in 1..Len(varList)}

ClassifiedOnce(paramNames, varList) ==
    \A i \in 1..Len(params) :
        LET p == params[i]
        IN  /\ InSeq(p, paramNames) # (p \in VarNames(varList))
            /\ (p \in VarNames(varList)) <=>
                    (p \in variableParams \/ InSeq(p, stateVars))

SortedUnion(varList, multiple) ==
    LET n == Len(varList) - (IF multiple THEN 1 ELSE 0)
    IN  /\ n >= 0
        /\ {varList[i][1] : i \in 1..n} = variableParams \cup Range(stateVars)
        /\ \A i \in 1..n : varList[i][2] = "scalar"
        /\ \A i \in 1..(n - 1) : CharCode(varList[i][1]) < CharCode(varList[i + 1][1])
        /\ multiple => varList[Len(varList)] = <<"_regimeID", "unsigned int">>

\* paramNames is the free Parameter names in the order of their declaration
KeepsDeclarationOrder(paramNames) ==
    LET free == {i \in 1..Len(params) :
                    params[i] \notin variableParams \cup Range(stateVars)}
    IN  /\ Len(paramNames) = Cardinality(free)
        /\ \A k \in 1..Len(paramNames) :
                \E i \in free : /\ paramNames[k] = params[i]
                                /\ Cardinality({j \in free : j < i}) = k - 1

\* the component has more than one (distinctly named) regime
MoreThanOneRegime == Cardinality(Range(regimes)) > 1

\* C13: the variable list is the deduplicated union of the caller's variable
\* names and the StateVariable names, typed scalar, ascending, followed by
\* _regimeID (unsigned int) last iff the has-multiple-regimes flag is true,
\* which in the constructor is iff the component has more than one regime;
\* the free-parameter list keeps declaration order.
C13_VariableListSortedRegimeIDLast ==
    /\ f_pc = "done" =>
            /\ SortedUnion(f_vars, f_multiple)
            /\ KeepsDeclarationOrder(f_paramNames)
    /\ n_pc = "regime" =>
            /\ n_multipleRegimes = MoreThanOneRegime
            /\ SortedUnion(m_Vars, MoreThanOneRegime)
            /\ KeepsDeclarationOrder(m_ParamNames)

\* a two-regime neuron model with a variable before and one after _regimeID
\* in character order, and two free parameters declared in descending order
C13_Witness ==
    /\ n_pc = "regime"
    /\ MoreThanOneRegime
    /\ m_Vars = << <<"Z", "scalar">>, <<"a", "scalar">>, <<"_regimeID", "unsigned int">> >>
    /\ stateVars = <<"a">>
    /\ params = <<"b", "a">>
    /\ m_ParamNames = <<"b">>


(***************************************************************************)
(* Claims about the resolution of values                                   *)
(***************************************************************************)
\* result has one entry per declared name, in declared order: the value the
\* map holds for the name, 0.0 if it holds none
ResolvedInDeclaredOrder(result) ==
    /\ Len(result) = Len(v_names)
    /\ \A i \in 1..Len(v_names) :
            /\ v_names[i] \in DOMAIN v_values => result[i] = v_values[v_names[i]]
            /\ v_names[i] \notin DOMAIN v_values => result[i] = 0

\* C14: ParamValues::getValues and VarValues::getValues return one entry per
\* declared name, in declared order, the map's value if present and 0.0
\* otherwise; keys that are not declared names do not appear.
C14_ValuesInDeclaredOrder ==
    v_called \in {"ParamValues", "VarValues"} => ResolvedInDeclaredOrder(v_result)

\* declared [a, b, c] with {b: 2.5} gives [0.0, 2.5, 0.0]
C14_Witness ==
    /\ v_called = "ParamValues"
    /\ v_names = <<"a", "b", "c">>
    /\ v_values = [n \in {"b"} |-> 25]
    /\ v_result = <<0, 25, 0>>

\* C15: SpineMLNeuronModel::ParamValues::getValues returns one entry per
\* declared parameter, in declared order, the supplied value or 0.0.
C15_NeuronValuesInDeclaredOrder ==
    v_called = "NeuronParamValues" => ResolvedInDeclaredOrder(v_result)


(***************************************************************************)
(* Claims about reading a component                                        *)
(***************************************************************************)
\* C16: when the ComponentClass node is missing, is not a neuron_body, or
\* has no Dynamics child, the constructor ends in an error and builds no
\* regime table, no classification and no code: it never goes on as if the
\* component had zero regimes.
C16_MalformedComponentIsRefused ==
    docKind \in {"noComponentClass", "wrongType", "noDynamics"} =>
        /\ n_pc \in {"load", "error"}
        /\ n_pc = "error" => n_error # ""


(***************************************************************************)
(* Claims about the model map                                              *)
(***************************************************************************)
\* C17: after any sequence of getCreateModel calls the map holds exactly one
\* model instance per distinct key requested; a model is constructed only on
\* the first request for its key, equal keys are returned the same instance
\* and different keys different instances.
C17_OneModelPerKey ==
    /\ DOMAIN models = Range(requested)
    /\ Len(created) = Cardinality(Range(requested))
    /\ \A i, j \in 1..Len(created) : created[i] = created[j] => i = j
    /\ \A i \in 1..Len(requested) : returned[i] = models[requested[i]]
    /\ \A i, j \in 1..Len(requested) :
            (requested[i] = requested[j]) <=> (returned[i] = returned[j])

\* a key requested twice around a request with its url and another variable
\* set
C17_Witness ==
    /\ Len(requested) = 3
    /\ requested[1] = requested[3]
    /\ requested[2].first = requested[1].first
    /\ requested[2].second # requested[1].second
    /\ returned[1] = returned[3]
    /\ returned[2] # returned[1]
    /\ Len(created) = 2


(***************************************************************************)
(* Claims about the two computations of the regime-ID table                *)
(***************************************************************************)
\* the table the document determines: every name numbered by first occurrence
TableOfDocument == [n \in Range(regimes) |-> FirstSeenID(n)]

\* C18: for every document the table filled by the neuron model constructor
\* and the table filled by generateModelCode give every regime name the same
\* ID, and each is the table the document alone determines, so a repeated
\* computation yields it again.
C18_TablesAgree ==
    /\ (pc = "build" /\ n_pc = "build" /\ regimeIdx = n_idx) =>
            regimeIDs = n_regimeIDs
    /\ pc = "regime" => regimeIDs = TableOfDocument
    /\ n_pc = "classify" => n_regimeIDs = TableOfDocument
    /\ (pc = "regime" /\ n_pc = "classify") =>
            /\ DOMAIN regimeIDs = DOMAIN n_regimeIDs
            /\ \A n \in DOMAIN regimeIDs : regimeIDs[n] = n_regimeIDs[n]
            /\ multipleRegimes = n_multipleRegimes

\* both computations have finished on a document that repeats a regime name
C18_Witness ==
    /\ pc = "regime"
    /\ n_pc = "classify"
    /\ regimes = <<"B", "B", "A">>
    /\ n_regimeIDs = [n \in {"A", "B"} |-> IF n = "B" THEN 0 ELSE 1]
    /\ regimeIDs = n_regimeIDs


(***************************************************************************)
(* Claims about empty regimes in the neuron model's simulation code        *)
(***************************************************************************)
\* a test on the regime whose block holds nothing
EmptyGuardAt(text, i) ==
    /\ i + 4 <= Len(text)
    /\ text[i] = "if(_regimeID == "
    /\ text[i + 3] = "{"
    /\ text[i + 4] = "}"

\* C19: in a multi-regime neuron component a regime without OnCondition and
\* without TimeDerivative contributes no guard and no text to the simulation
\* code, so the code of a finished regime never holds a guard around nothing.
C19_EmptyRegimeHasNoGuard ==
    (n_multipleRegimes /\ n_pc \in {"regime", "done"}) =>
        \A i \in 1..Len(simCode) : ~EmptyGuardAt(simCode, i)


(***************************************************************************)
(* Claims about the order of handler calls and regime ends                 *)
(***************************************************************************)
\* regime end has been signalled once for every Regime node left behind, in
\* the order of the document
RegimeEndsInDocumentOrder ==
    /\ pc \in {"regime", "children"} => Len(regimeEnds) = regimeIdx - 1
    /\ pc = "done" => Len(regimeEnds) = Len(regimes)
    /\ \A i \in 1..Len(regimeEnds) : regimeEnds[i] = FirstSeenID(regimes[i])

\* every handler call is for a child node of the regime being visited, by
\* the handler of its kind
CallsMatchNodes ==
    \A i \in 1..Len(calls) :
        /\ pc = "children"
        /\ calls[i].node \in 1..Len(children)
        /\ calls[i].handler = children[calls[i].node].kind

\* C20 as stated: regimes are visited in document order, the child nodes of
\* a regime are handled in the order they appear in the document, and
\* regime end is signalled once per Regime node after its handler calls.
C20_ChildrenInDocumentOrder ==
    /\ RegimeEndsInDocumentOrder
    /\ CallsMatchNodes
    /\ \A i, j \in 1..Len(calls) : i < j => calls[i].node < calls[j].node

\* the position of a kind among the four loops
KindRank(kind) ==
    CASE kind = "OnCondition" -> 1
      [] kind = "OnEvent" -> 2
      [] kind = "OnImpulse" -> 3
      [] kind = "TimeDerivative" -> 4

\* calls grouped by kind, in document order within a kind
CallsGroupedByKind ==
    \A i, j \in 1..Len(calls) : i < j =>
        LET ki == KindRank(children[calls[i].node].kind)
            kj == KindRank(children[calls[j].node].kind)
        IN  ki < kj \/ (ki = kj /\ calls[i].node < calls[j].node)

\* every child node of the regime has been handled, once
AllChildrenHandled ==
    /\ Len(calls) = Len(children)
    /\ {calls[i].node : i \in 1..Len(calls)} = 1..Len(children)

\* C20, amended: regimes are visited in document order; within a regime the
\* child nodes are handled kind by kind (OnCondition, OnEvent, OnImpulse,
\* TimeDerivative), in document order within a kind; regime end is signalled
\* once per Regime node, after every child node of that regime has been
\* handled once and before any handler call for the next regime.
C20_ChildrenByKindThenDocumentOrder ==
    [][ /\ RegimeEndsInDocumentOrder'
        /\ CallsMatchNodes'
        /\ CallsGroupedByKind'
        /\ Len(regimeEnds') # Len(regimeEnds) =>
                /\ AllChildrenHandled
                /\ regimeEnds' = Append(regimeEnds, FirstSeenID(regimes[regimeIdx]))
                /\ calls' = <<>>
        /\ Len(calls') > Len(calls) =>
                /\ regimeEnds' = regimeEnds
                /\ Len(regimeEnds) = regimeIdx - 1 ]_vars

\* a regime whose TimeDerivative precedes its OnCondition in the document:
\* the condition has been handled first, then the derivative
C20_Witness ==
    /\ pc = "children"
    /\ Len(children) = 2
    /\ children[1].kind = "TimeDerivative"
    /\ children[2].kind = "OnCondition"
    /\ Len(calls) = 2
    /\ calls[1].node = 2
    /\ calls[2].node = 1
    /\ Len(regimeEnds) = 1


(***************************************************************************)
(* Claims about the connection-type dispatch                               *)
(***************************************************************************)
OtherKinds == ConnectionKinds \ {"ConnectionList"}

\* C21: the ConnectionList branch is taken only when the Synapse has no
\* OneToOneConnection, AllToAllConnection or FixedProbabilityConnection
\* child; it hands the absent FixedProbabilityConnection node to the readers,
\* so it never returns a tuple and ends in "Connector has no 'Delay' node",
\* whatever Delay the ConnectionList carries.
C21_ConnectionListAlwaysFails ==
    /\ s_branch = "ConnectionList" =>
            /\ s_node["ConnectionList"].present
            /\ \A k \in OtherKinds : ~s_node[k].present
            /\ s_passed = s_node["FixedProbabilityConnection"]
            /\ ~s_passed.present
            /\ s_pc # "returned"
            /\ s_pc = "error" => s_error = "Connector has no 'Delay' node"
    /\ (s_pc # "call" /\ s_node["ConnectionList"].present
            /\ \A k \in OtherKinds : ~s_node[k].present) =>
            s_branch = "ConnectionList"

\* a ConnectionList with a fixed Delay, refused after another argument had
\* been evaluated
C21_Witness ==
    /\ s_branch = "ConnectionList"
    /\ s_node["ConnectionList"].delay = "fixed"
    /\ s_pc = "error"
    /\ s_error = "Connector has no 'Delay' node"
    /\ Len(s_values) > 0

====
